---- MODULE Spec2Model ----
(***************************************************************************)
(* Model of stocktracker.py: the process-wide SQLite connection, the       *)
(* stocks table of stocks.db, the interactive menu loop and the functions  *)
(* the menu dispatches to.  The data provider, the NSE listing endpoint,   *)
(* the disk and the clock are the environment: every call into them draws  *)
(* its outcome from a small set.                                           *)
(***************************************************************************)
EXTENDS Integers, Sequences, FiniteSets, TLC

\* ---------------------------------------------------------------- bounds
MaxRows == 3
MaxBatch == 3

\* ------------------------------------------------------------ input sets
\* Tickers as the user types them, before .upper().
TypedTickers == {"tcs", "INFY"}
\* UTC clock readings in minutes since day 0, 00:00 UTC: 20:00 of day 0 and
\* 16:00 of day 1.
FirstTime == 20 * 60
ClockTimes == {FirstTime, 40 * 60}
\* Local time-zone offsets in minutes east of UTC (UTC and IST).
TzOffsets == {0, 330}
MinutesPerDay == 24 * 60

RECURSIVE SeqsUpTo(_, _)
SeqsUpTo(S, n) ==
    IF n = 0 THEN {<<>>}
    ELSE LET shorter == SeqsUpTo(S, n - 1)
         IN  shorter \cup {Append(s, e) : s \in {t \in shorter : Len(t) = n - 1}, e \in S}

\* The closing prices of a history, oldest first; <<>> is the empty DataFrame.
SeriesSet == {<<>>, <<108>>, <<100, 108>>, <<108, 100>>}
\* A comma-and-space separated line of tickers: split(", ") never returns an
\* empty list.
BatchInputs == SeqsUpTo(TypedTickers, MaxBatch) \ {<<>>}

VARIABLES
    pc,          \* "off" | "menu" | "track" | "done" | "crashed"
    connOpen,    \* conn is an open connection
    closeCount,  \* conn.close() calls of this process
    tables,      \* number of tables named stocks in stocks.db
    rows,        \* the committed rows of stocks, in insertion order
    tickers,     \* track_multiple_stocks: its argument
    idx,         \* track_multiple_stocks: position of the for loop
    fetched,     \* track_multiple_stocks: the histories fetched so far
    rows0,       \* Len(rows) when track_multiple_stocks was entered
    now,         \* the clock, UTC minutes
    tz,          \* the process's local time-zone offset, minutes
    out,         \* the kind of output the last operation ended with
    listCall,    \* the last operation's fetch_nse_stock_list call, if it made one
    crashCause,  \* the exception that ended the process, "" if none
    startRows,   \* Len(rows) when the process started
    nonEmpty     \* non-empty histories fetched by option 4 in this process

vars == <<pc, connOpen, closeCount, tables, rows, tickers, idx, fetched, rows0,
          now, tz, out, listCall, crashCause, startRows, nonEmpty>>

storeVars == <<tables, rows>>
batchVars == <<tickers, idx, fetched, rows0>>
connVars == <<connOpen, closeCount>>
runVars == <<tz, startRows>>

NoCall == [estab |-> "", listing |-> "", result |-> ""]

\* ------------------------------------------------------- pure functions

\* str.upper() on the typed tickers.
Upper(s) == CASE s = "tcs" -> "TCS"
              [] s = "INFY" -> "INFY"
              [] OTHER -> s

upper_split(line) == [i \in 1..Len(line) |-> Upper(line[i])]

\* ticker + ".NS"
Qualify(ticker) == ticker \o ".NS"

\* SQLite's DATE('now'): the UTC calendar date.
DateNow(t) == t \div MinutesPerDay

\* data.empty
empty(data) == Len(data) = 0

\* data["Close"].iloc[0]: the oldest close instead of the latest.
iloc_first(data) == data[1]

\* data["Close"].iloc[-1]
iloc_last(data) == data[Len(data)]

\* CREATE TABLE without IF NOT EXISTS: raises when the table is there.
initialize_store_plain(n, table) ==
    [tables |-> IF n = 0 THEN 1 ELSE n, rows |-> table, raised |-> n > 0]

\* sqlite3.connect + CREATE TABLE IF NOT EXISTS stocks (...) + commit, on a
\* store holding n tables named stocks with the rows of table: the store
\* afterwards and whether a statement raised.
initialize_store(n, table) ==
    [tables |-> IF n = 0 THEN 1 ELSE n, rows |-> table, raised |-> FALSE]

\* INSERT OR REPLACE under a uniqueness constraint on (symbol, date).
save_to_db_upsert(table, ticker, price, t) ==
    LET row == [symbol |-> ticker, date |-> DateNow(t), price |-> price]
        same(i) == table[i].symbol = ticker /\ table[i].date = DateNow(t)
    IN  IF \E i \in 1..Len(table) : same(i)
          THEN [i \in 1..Len(table) |-> IF same(i) THEN row ELSE table[i]]
          ELSE Append(table, row)

\* INSERT INTO stocks (symbol, date, price) VALUES (?, DATE('now'), ?)
save_to_db(table, ticker, price, t) ==
    Append(table, [symbol |-> ticker, date |-> DateNow(t), price |-> price])

\* The loop body without its emptiness check, an empty history saved as 0.
TrackBodyNoCheck(table, ticker, data, t) ==
    save_to_db(table, ticker, IF empty(data) THEN 0 ELSE iloc_last(data), t)

\* The body of the for loop of track_multiple_stocks, on the table.
TrackBody(table, ticker, data, t) ==
    IF ~empty(data) THEN save_to_db(table, ticker, iloc_last(data), t) ELSE table

\* The loop left at the first empty history.
NextIdxBreak(i, n, data) == IF empty(data) THEN n + 1 ELSE i + 1

\* The for loop's next position.
NextIdx(i, n, data) == i + 1

\* ------------------------------------------------- environment outcomes
\* session.get("https://www.nseindia.com"): answered or a transport failure.
EstabOutcomes == {"ok", "transport"}
\* session.get(url) + raise_for_status() + the records of the body:
\* answered, a transport failure, an HTTP error status, or a body with a
\* record that has no "symbol".
ListingOutcomes == {"ok", "transport", "http", "malformed"}
\* The symbols of the listing's "data" records.
ListingData == {<<>>, <<"TCS">>, <<"TCS", "INFY">>}
\* fetch_nse_stock_list: what the call does, given what its two requests do.
fetch_nse_stock_list(estab, listing, data) ==
    IF estab # "ok" THEN [result |-> "raise", cause |-> "provider", df |-> <<>>]
    ELSE IF listing \in {"transport", "http"}
    THEN [result |-> "None", cause |-> "", df |-> <<>>]
    ELSE IF listing = "malformed"
    THEN [result |-> "raise", cause |-> "malformed", df |-> <<>>]
    ELSE [result |-> "df", cause |-> "",
          df |-> [i \in 1..Len(data) |->
                    [CompanyName |-> data[i], StockSymbol |-> Qualify(data[i])]]]

\* ------------------------------------------------------------ the program

Init ==
    /\ pc = "off"
    /\ connOpen = FALSE
    /\ closeCount = 0
    /\ tables = 0
    /\ rows = <<>>
    /\ tickers = <<>>
    /\ idx = 1
    /\ fetched = <<>>
    /\ rows0 = 0
    /\ now = FirstTime
    /\ tz = 0
    /\ out = ""
    /\ listCall = NoCall
    /\ crashCause = ""
    /\ startRows = 0
    /\ nonEmpty = 0

\* An uncaught exception unwinds the module: the interpreter exits with the
\* statements after the raising one not run.
Raise(cause) ==
    /\ pc' = "crashed"
    /\ crashCause' = cause
    /\ UNCHANGED connVars

\* A process starts (the first one, or one after an earlier process ended):
\* the module-level connect, CREATE TABLE IF NOT EXISTS and commit, then the
\* menu loop is entered.  diskFault is the disk failing under a statement.
Start ==
    /\ pc \in {"off", "done", "crashed"}
    /\ \E offset \in TzOffsets, diskFault \in BOOLEAN :
          LET store == initialize_store(tables, rows) IN
          /\ tz' = offset
          /\ connOpen' = TRUE
          /\ closeCount' = 0
          /\ startRows' = Len(rows)
          /\ nonEmpty' = 0
          /\ out' = ""
          /\ listCall' = NoCall
          /\ tickers' = <<>> /\ idx' = 1 /\ fetched' = <<>> /\ rows0' = 0
          /\ IF diskFault
                THEN /\ pc' = "crashed" /\ crashCause' = "disk"
                     /\ UNCHANGED storeVars
                ELSE IF store.raised
                THEN /\ pc' = "crashed" /\ crashCause' = "create table"
                     /\ UNCHANGED storeVars
                ELSE /\ pc' = "menu" /\ crashCause' = ""
                     /\ tables' = store.tables
                     /\ rows' = store.rows
    /\ UNCHANGED now

\* Choice "1": fetch_nse_stock_list and the listing printed.
Choice1 ==
    /\ pc = "menu"
    /\ \E estab \in EstabOutcomes, listing \in ListingOutcomes, data \in ListingData :
          LET r == fetch_nse_stock_list(estab, listing, data) IN
          /\ listCall' = [estab |-> estab,
                           listing |-> IF estab = "ok" THEN listing ELSE "",
                           result |-> r.result]
          /\ IF r.result = "raise"
                THEN /\ Raise(r.cause) /\ UNCHANGED out
                ELSE /\ UNCHANGED <<pc, crashCause, connVars>>
                     /\ out' = IF r.result = "None" THEN "warning" ELSE "list"
    /\ UNCHANGED <<storeVars, batchVars, runVars, now, nonEmpty>>

\* The outcomes of stock.history(period="6mo"): a history, or an exception.
HistoryOutcomes == [raised : {FALSE}, data : SeriesSet] \cup {[raised |-> TRUE, data |-> <<>>]}

\* Choice "2" that also saves the price it prints.
Choice2Saving ==
    /\ pc = "menu"
    /\ \E typed \in TypedTickers, h \in HistoryOutcomes :
          IF h.raised
            THEN /\ Raise("provider") /\ UNCHANGED <<out, rows>>
            ELSE /\ UNCHANGED <<pc, crashCause, connVars>>
                 /\ out' = IF ~empty(h.data) THEN "price" ELSE "warning"
                 /\ rows' = IF ~empty(h.data) /\ Len(rows) < MaxRows
                              THEN save_to_db(rows, Upper(typed), iloc_last(h.data), now)
                              ELSE rows
    /\ listCall' = NoCall
    /\ UNCHANGED <<tables, batchVars, runVars, now, nonEmpty>>

\* Choice "2": the latest close of one ticker, printed.
Choice2 ==
    /\ pc = "menu"
    /\ \E typed \in TypedTickers, h \in HistoryOutcomes :
          IF h.raised
            THEN /\ Raise("provider") /\ UNCHANGED out
            ELSE /\ UNCHANGED <<pc, crashCause, connVars>>
                 /\ out' = IF ~empty(h.data) THEN "price" ELSE "warning"
    /\ listCall' = NoCall
    /\ UNCHANGED <<storeVars, batchVars, runVars, now, nonEmpty>>

\* Choice "3": get_stock_details and its seven lines printed.
Choice3 ==
    /\ pc = "menu"
    /\ \E typed \in TypedTickers, raised \in BOOLEAN :
          IF raised
            THEN /\ Raise("provider") /\ UNCHANGED out
            ELSE /\ UNCHANGED <<pc, crashCause, connVars>>
                 /\ out' = "details"
    /\ listCall' = NoCall
    /\ UNCHANGED <<storeVars, batchVars, runVars, now, nonEmpty>>

\* Choice "4": the line is upper-cased and split, track_multiple_stocks is
\* entered and opens its figure.
Choice4 ==
    /\ pc = "menu"
    /\ \E line \in BatchInputs :
          /\ Len(rows) + Len(line) <= MaxRows
          /\ tickers' = upper_split(line)
    /\ pc' = "track"
    /\ idx' = 1
    /\ fetched' = <<>>
    /\ rows0' = Len(rows)
    /\ out' = "figure"
    /\ listCall' = NoCall
    /\ UNCHANGED <<storeVars, connVars, runVars, now, crashCause, nonEmpty>>

\* One iteration of the for loop of track_multiple_stocks: the history is
\* fetched and, when it is not empty, plotted and its latest close saved.
TrackIter ==
    /\ pc = "track"
    /\ idx <= Len(tickers)
    /\ \E h \in HistoryOutcomes, diskFault \in BOOLEAN :
          IF h.raised
            THEN /\ Raise("provider")
                 /\ UNCHANGED <<rows, idx, fetched, nonEmpty>>
            ELSE /\ fetched' = Append(fetched, h.data)
                 /\ nonEmpty' = IF empty(h.data) THEN nonEmpty ELSE nonEmpty + 1
                 /\ IF ~empty(h.data) /\ diskFault
                       THEN /\ Raise("persistence")
                            /\ UNCHANGED <<rows, idx>>
                       ELSE /\ rows' = TrackBody(rows, tickers[idx], h.data, now)
                            /\ idx' = NextIdx(idx, Len(tickers), h.data)
                            /\ UNCHANGED <<pc, crashCause, connVars>>
    /\ UNCHANGED <<tables, tickers, rows0, runVars, now, out, listCall>>

\* After the loop: labels, legend, grid, plt.show(); back to the menu.
TrackShow ==
    /\ pc = "track"
    /\ idx > Len(tickers)
    /\ pc' = "menu"
    /\ out' = "chart"
    /\ tickers' = <<>> /\ idx' = 1 /\ fetched' = <<>> /\ rows0' = 0
    /\ UNCHANGED <<storeVars, connVars, runVars, now, listCall, crashCause, nonEmpty>>

\* Choice "5": plot_with_moving_averages.
Choice5 ==
    /\ pc = "menu"
    /\ \E typed \in TypedTickers, h \in HistoryOutcomes :
          IF h.raised
            THEN /\ Raise("provider") /\ UNCHANGED out
            ELSE /\ UNCHANGED <<pc, crashCause, connVars>>
                 /\ out' = IF empty(h.data) THEN "warning" ELSE "trend"
    /\ listCall' = NoCall
    /\ UNCHANGED <<storeVars, batchVars, runVars, now, nonEmpty>>

\* Choice "6": the loop is left by break and conn.close() runs.
Choice6 ==
    /\ pc = "menu"
    /\ pc' = "done"
    /\ connOpen' = FALSE
    /\ closeCount' = closeCount + 1
    /\ out' = "exiting"
    /\ listCall' = NoCall
    /\ UNCHANGED <<storeVars, batchVars, runVars, now, crashCause, nonEmpty>>

\* Any other choice.
InvalidChoice ==
    /\ pc = "menu"
    /\ out' = "invalid"
    /\ listCall' = NoCall
    /\ UNCHANGED <<pc, storeVars, connVars, batchVars, runVars, now, crashCause, nonEmpty>>

\* Ctrl-C while the menu waits for input or a batch is running:
\* KeyboardInterrupt, which nothing catches.
Interrupt ==
    /\ pc \in {"menu", "track"}
    /\ Raise("interrupt")
    /\ UNCHANGED <<storeVars, batchVars, runVars, now, out, listCall, nonEmpty>>

\* Time passes.
Tick ==
    /\ pc \in {"menu", "track"}
    /\ \E t \in ClockTimes : t > now /\ now' = t
    /\ UNCHANGED <<pc, connVars, storeVars, batchVars, runVars, out, listCall,
                   crashCause, nonEmpty>>

Next ==
    \/ Start
    \/ Choice1
    \/ Choice2
    \/ Choice3
    \/ Choice4
    \/ TrackIter
    \/ TrackShow
    \/ Choice5
    \/ Choice6
    \/ InvalidChoice
    \/ Interrupt
    \/ Tick

Spec == Init /\ [][Next]_vars

TypeOK ==
    /\ pc \in {"off", "menu", "track", "done", "crashed"}
    /\ Len(rows) <= MaxRows
    /\ tables \in {0, 1}

\* ------------------------------------------------------------ properties

\* The number of non-empty histories among the first j fetched of the batch.
RECURSIVE Rank(_)
Rank(j) == IF j = 0 THEN 0
           ELSE Rank(j - 1) + (IF Len(fetched[j]) > 0 THEN 1 ELSE 0)

\* The rows appended since track_multiple_stocks was entered.
NewRows == SubSeq(rows, rows0 + 1, Len(rows))

\* The process ended by an exception raised inside the menu loop.
LoopCrash == pc = "crashed" /\ crashCause \notin {"disk", "create table"}

\* C1: however the process leaves the menu loop (Exit, an uncaught provider
\* or persistence error, an interrupt), conn.close() has been called exactly
\* once and the connection is not left open.
C1_CloseOnEveryExit ==
    (pc = "done" \/ LoopCrash) => (closeCount = 1 /\ ~connOpen)

\* C2: a provider or listing endpoint that cannot be reached never ends the
\* process: only a persistence failure of the append may.
C2_ProviderFailureContinues ==
    LoopCrash => crashCause # "provider"

\* C3: in a comparison batch every row appended carries the symbol of a
\* ticker of the batch whose fetched history was not empty, so a ticker whose
\* histories were all empty gets no row.
C3_NoRowForEmptySeries ==
    pc = "track" =>
        \A k \in 1..Len(NewRows) :
            \E i \in 1..Len(fetched) :
                tickers[i] = NewRows[k].symbol /\ Len(fetched[i]) > 0

C3_Witness ==
    /\ pc = "track" /\ idx > Len(tickers)
    /\ Len(NewRows) > 0
    /\ \E i \in 1..Len(fetched) :
          /\ Len(fetched[i]) = 0
          /\ \A k \in 1..Len(NewRows) : NewRows[k].symbol # tickers[i]

\* C4: in a comparison batch the row appended for a ticker with a non-empty
\* history holds that ticker's symbol and the close of the history's
\* chronologically last entry.
C4_LatestCloseSaved ==
    pc = "track" =>
        \A j \in 1..Len(fetched) :
            Len(fetched[j]) > 0 =>
                /\ Rank(j) <= Len(NewRows)
                /\ NewRows[Rank(j)].symbol = tickers[j]
                /\ NewRows[Rank(j)].price = fetched[j][Len(fetched[j])]

C4_Witness ==
    /\ pc = "track" /\ idx > Len(tickers)
    /\ \E i, j \in 1..Len(fetched) :
          /\ i < j
          /\ tickers[i] # tickers[j]
          /\ Len(fetched[i]) = 2 /\ Len(fetched[j]) = 2
          /\ fetched[i][1] # fetched[i][2]
          /\ fetched[i][2] # fetched[j][2]

\* C5: an empty history does not end the batch: every ticker of the batch
\* is fetched, and the rows appended are, in batch order, one per ticker
\* occurrence with a non-empty history.
C5_EmptyDoesNotAbort ==
    pc = "track" =>
        /\ Len(fetched) = idx - 1
        /\ idx <= Len(tickers) + 1
        /\ Len(NewRows) = Rank(Len(fetched))
        /\ \A j \in 1..Len(fetched) :
              Len(fetched[j]) > 0 => NewRows[Rank(j)].symbol = tickers[j]

C5_Witness ==
    /\ pc = "track" /\ idx > Len(tickers)
    /\ Len(tickers) = 3
    /\ Len(fetched[1]) = 0 /\ Len(fetched[2]) > 0 /\ Len(fetched[3]) = 0
    /\ Len(NewRows) = 1

\* C6: fetch_nse_stock_list returns None whenever one of its requests fails
\* in transport; it neither raises nor returns a list then.
C6_TransportFailureGivesNone ==
    (listCall.estab = "transport" \/ listCall.listing = "transport")
        => listCall.result = "None"

\* A step in which save_to_db was called and returned.
Saved ==
    /\ pc = "track" /\ pc' = "track"
    /\ Len(fetched') = Len(fetched) + 1
    /\ Len(fetched'[Len(fetched')]) > 0

\* C7: the table is an append-only log: no step changes or removes a stored
\* row or adds more than one, and every save_to_db call that returns adds
\* exactly one row, also when a row of the same symbol and date is stored.
C7_AppendOnly ==
    [][/\ Len(rows') \in {Len(rows), Len(rows) + 1}
       /\ SubSeq(rows', 1, Len(rows)) = rows
       /\ Saved => Len(rows') = Len(rows) + 1]_vars

C7_Witness ==
    \E i, j \in 1..Len(rows) :
        /\ i < j
        /\ rows[i].symbol = rows[j].symbol
        /\ rows[i].date = rows[j].date

\* C8: store initialization on a store that already has the table (or has
\* none) raises nothing, leaves exactly one stocks table and every stored
\* row as it was; and a row is only ever appended once the table is there
\* and the connection open.
C8_InitIdempotent ==
    [][/\ (pc \in {"off", "done", "crashed"} /\ crashCause' # "disk")
            => (pc' = "menu" /\ tables' = 1 /\ rows' = rows)
       /\ (rows' # rows) => (tables = 1 /\ connOpen)]_vars

C8_Witness ==
    pc = "menu" /\ startRows > 0 /\ tables = 1 /\ Len(rows) > startRows

\* The calendar date of the process's own time zone.
LocalDate(t, offset) == (t + offset) \div MinutesPerDay

\* C9: the date of every appended row is the calendar date of the
\* process's own time zone at the moment of the append.
C9_LocalDateStored ==
    [][Len(rows') > Len(rows)
         => rows'[Len(rows')].date = LocalDate(now, tz)]_vars

\* C10: only comparison batches write: no step taken at the menu changes the
\* rows, and unless an insert failed the rows added by the process are as
\* many as the non-empty histories its comparison batches fetched.
C10_LogOnCompareOnly ==
    /\ [](crashCause # "persistence" => Len(rows) - startRows = nonEmpty)
    /\ [][pc = "menu" => rows' = rows]_vars

C10_Witness ==
    /\ pc = "menu"
    /\ out \in {"list", "price", "details", "trend", "warning", "invalid"}
    /\ nonEmpty > 0

====
